---------------------------- MODULE Spec2Model ----------------------------
(***************************************************************************)
(* Model of src/main.py: a linear pipeline that downloads the subtitles of *)
(* a video (yt-dlp), cleans the SRT file in place, pipes it to a local     *)
(* model runner (ollama run), then stops the model and optionally deletes  *)
(* the transcript.                                                         *)
(*                                                                         *)
(* Text is a sequence of one-character strings.  The disk (the canonical   *)
(* transcript file and the alternate-named file yt-dlp may produce)        *)
(* outlives a run of the program; everything else is per-run state.        *)
(***************************************************************************)
EXTENDS Integers, Sequences, FiniteSets, TLC

VARIABLES
    pc,           \* position of main(): the stage about to execute
    run,          \* ordinal of the current run of the program
    deleteFlag,   \* DELETE_TRANSCRIPT_AFTER_SUMMARY
    transcript,   \* the file TRANSCRIPT_FILENAME on disk
    altFile,      \* the file "transcript.srt.en.srt" on disk
    url,          \* youtube_url
    trace,        \* what this run did and printed, in order
    failed,       \* the stage of this run that failed, or "none"
    exitCode,     \* exit status of the process once pc = "terminated"
    lastProc,     \* what the most recent subprocess did
    lastError,    \* the CommandError most recently raised by run_command
    fetch,        \* what download_subtitles of this run did
    before,       \* content of the file when clean_srt_file last started
    cleanOk       \* return value of the last clean_srt_file

vars == <<pc, run, deleteFlag, transcript, altFile, url, trace, failed,
          exitCode, lastProc, lastError, fetch, before, cleanOk>>

-----------------------------------------------------------------------------
(* Bounds *)

MaxLineLen == 3     \* longest enumerated raw line
MaxLines == 2       \* most lines in an enumerated raw transcript
MaxRuns == 2        \* runs of the program over the same directory

-----------------------------------------------------------------------------
(* Characters and text *)

NL == "\n"
Digits == {"0", "1", "2", "3", "4", "5", "6", "7", "8", "9"}
Whitespace == {" ", "\t", "\r", NL}

Min(S) == CHOOSE x \in S : \A y \in S : x <= y
Max(S) == CHOOSE x \in S : \A y \in S : x >= y

\* str.strip(): drop leading and trailing whitespace
Strip(s) ==
    LET solid == {i \in 1..Len(s) : s[i] \notin Whitespace}
    IN  IF solid = {} THEN <<>> ELSE SubSeq(s, Min(solid), Max(solid))

\* file.readlines(): split after every newline, each line keeps its terminator
RECURSIVE ReadLines(_)
ReadLines(s) ==
    IF s = <<>> THEN <<>>
    ELSE LET nls == {i \in 1..Len(s) : s[i] = NL}
             n   == IF nls = {} THEN Len(s) ELSE Min(nls)
         IN  <<SubSeq(s, 1, n)>> \o ReadLines(SubSeq(s, n + 1, Len(s)))

\* the regular expressions of clean_srt_file, as lists of pattern elements:
\* "d" is \d, anything else a literal character
TimestampPattern ==
    <<"d","d",":","d","d",":","d","d",",","d","d","d",
      " ","-","-",">"," ",
      "d","d",":","d","d",":","d","d",",","d","d","d">>

MatchesElement(c, e) == IF e = "d" THEN c \in Digits ELSE c = e

\* timestamp_pattern.match(line): ^...$ over a line without a newline
timestamp_pattern(line) ==
    /\ Len(line) = Len(TimestampPattern)
    /\ \A i \in 1..Len(line) : MatchesElement(line[i], TimestampPattern[i])

\* seq_num_pattern.match(line): ^\d+$
seq_num_pattern(line) ==
    /\ Len(line) >= 1
    /\ \A i \in 1..Len(line) : line[i] \in Digits

\* what tag removal would do were the pattern the greedy <.*>
GreedyTagSub(s) ==
    LET lt == {i \in 1..Len(s) : s[i] = "<"}
        gt == {i \in 1..Len(s) : s[i] = ">"}
    IN  IF lt # {} /\ gt # {} /\ Min(lt) < Max(gt)
        THEN SubSeq(s, 1, Min(lt) - 1) \o SubSeq(s, Max(gt) + 1, Len(s))
        ELSE s

\* tag_pattern.sub('', line) with tag_pattern = <[^>]*> : scanning left to
\* right, a '<' that has a '>' after it starts a match ending at the first
\* such '>'; the match is dropped and the scan resumes behind it.
RECURSIVE tag_pattern_sub(_)
tag_pattern_sub(s) ==
    IF s = <<>> THEN <<>>
    ELSE LET close == {k \in 2..Len(s) : s[k] = ">"}
         IN  IF Head(s) = "<" /\ close # {}
             THEN tag_pattern_sub(SubSeq(s, Min(close) + 1, Len(s)))
             ELSE <<Head(s)>> \o tag_pattern_sub(Tail(s))

\* line 68: the stripped line is a timestamp range or a sequence number
IsStructural(line) == timestamp_pattern(line) \/ seq_num_pattern(line)

\* a cleaner without the test of line 75
KeepsBlank(line) == TRUE

\* line 75: the line is kept when something is left after tag removal
KeepAfterTags(line) == Strip(line) # <<>>

\* a cleaner that appends the line without the strip of line 76
AppendedUnstripped(line) == line

\* line 76: what is appended to cleaned_lines
Appended(line) == Strip(line)

\* lines 63-76: the loop body for one line, the list of lines it appends
CleanLine(raw) ==
    LET line == Strip(raw)
    IN  IF line = <<>> THEN <<>>
        ELSE IF IsStructural(line) THEN <<>>
        ELSE LET untagged == tag_pattern_sub(line)
             IN  IF KeepAfterTags(untagged) THEN <<Appended(untagged)>>
                 ELSE <<>>

\* lines 63-76: cleaned_lines after the loop over lines
RECURSIVE CleanedLines(_)
CleanedLines(lines) ==
    IF lines = <<>> THEN <<>>
    ELSE CleanLine(Head(lines)) \o CleanedLines(Tail(lines))

\* line 84: "\n".join(cleaned_lines) + "\n"
RECURSIVE JoinLines(_)
JoinLines(lines) ==
    IF lines = <<>> THEN <<NL>>
    ELSE IF Len(lines) = 1 THEN Head(lines) \o <<NL>>
    ELSE Head(lines) \o <<NL>> \o JoinLines(Tail(lines))

\* a cleaner without the test of line 78
WritesWhenEmpty(cleaned) == FALSE

\* line 78: nothing survived
NothingSurvived(cleaned) == cleaned = <<>>

\* clean_srt_file on a file holding `content`; io is what the file system
\* does: "ok", "read_error" (open/read raises), "open_error" (opening for
\* writing raises), "write_error" (the write raises after truncation).
\* Gives the return value and the content the file holds afterwards.
clean_srt_file(content, io) ==
    IF io = "read_error"
    THEN [ok |-> FALSE, content |-> content]
    ELSE LET cleaned == CleanedLines(ReadLines(content))
         IN  IF NothingSurvived(cleaned)
             THEN [ok |-> FALSE, content |-> content]
             ELSE IF io = "open_error"
             THEN [ok |-> FALSE, content |-> content]
             ELSE IF io = "write_error"
             THEN [ok |-> FALSE, content |-> <<>>]
             ELSE [ok |-> TRUE, content |-> JoinLines(cleaned)]

-----------------------------------------------------------------------------
(* Configuration, lines 9-12 *)

PROMPT == "Please provide a detailed summary of the following YouTube video transcript:"
OLLAMA_MODEL == "gemma3:12b"

-----------------------------------------------------------------------------
(* Files and subprocesses *)

NoFile == [exists |-> FALSE, content |-> <<>>, madeBy |-> 0]
File(content, r) == [exists |-> TRUE, content |-> content, madeBy |-> r]

\* What a subprocess can do: exit with a status, or fail to launch
\* (executable not found, another OSError), or outlive the timeout.
Outputs == {"o1", "o2"}
ExitOutcomes ==
    [kind : {"exit"}, status : {0, 1, 2}, stdout : Outputs, stderr : Outputs]
LaunchFailure(k) == [kind |-> k, status |-> 0, stdout |-> "", stderr |-> ""]
NoProc == LaunchFailure("none")
RunOutcomes ==
    ExitOutcomes \cup {LaunchFailure("not_found"), LaunchFailure("os_error")}
ProbeOutcomes == RunOutcomes \cup {LaunchFailure("timeout")}

Succeeded(proc) == proc.kind = "exit" /\ proc.status = 0

NoError ==
    [what |-> "none", step |-> "", cmd |-> <<>>, status |-> 0,
     stderr |-> "", stdout |-> ""]

\* an error message that leaves out what the command printed
SilentError(cmd, step, proc) ==
    [what |-> "exit", step |-> step, cmd |-> cmd, status |-> proc.status,
     stderr |-> "", stdout |-> ""]

\* lines 42-47: the message built from CalledProcessError
ExitError(cmd, step, proc) ==
    [what |-> "exit", step |-> step, cmd |-> cmd, status |-> proc.status,
     stderr |-> proc.stderr, stdout |-> proc.stdout]

\* run_command, lines 26-49: the result when the command succeeds, else the
\* CommandError raised
run_command(cmd, step, proc) ==
    IF Succeeded(proc)
    THEN [raised |-> FALSE, error |-> NoError, stdout |-> proc.stdout]
    ELSE IF proc.kind = "not_found"
    THEN [raised |-> TRUE, stdout |-> "",
          error |-> [NoError EXCEPT !.what = "not_found", !.cmd = <<cmd[1]>>]]
    ELSE IF proc.kind = "exit"
    THEN [raised |-> TRUE, stdout |-> "", error |-> ExitError(cmd, step, proc)]
    ELSE [raised |-> TRUE, stdout |-> "",
          error |-> [NoError EXCEPT !.what = "unexpected", !.step = step]]

-----------------------------------------------------------------------------
(* Sample text *)

Timestamp ==
    <<"0","0",":","0","0",":","0","1",",","0","0","0"," ","-","-",">"," ",
      "0","0",":","0","0",":","0","2",",","0","0","0">>
HelloTagged ==
    <<"H","e","l","l","o"," ","<","b",">","w","o","r","l","d","<","/","b",">">>
HelloWorld == <<"H","e","l","l","o"," ","w","o","r","l","d">>
OnlyTags == <<"<","i",">","<","/","i",">">>
TaggedNumber == <<"<","b",">","1","2","<","/","b",">">>
Goodbye == <<"G","o","o","d","b","y","e">>
SpacedTag == <<"H","i"," ","<","b","r",">">>

\* concatenation of lines, each terminated by a newline
RECURSIVE Unlines(_)
Unlines(lines) ==
    IF lines = <<>> THEN <<>>
    ELSE Head(lines) \o <<NL>> \o Unlines(Tail(lines))

\* an SRT file with two cues, the second cue only a sequence number and a time
SrtExample ==
    Unlines(<< <<"1">>, Timestamp, HelloTagged, <<>>, <<"2">>, Timestamp,
               Goodbye >>)

\* what the downloader may leave in the file it writes
DownloadedContents ==
    { <<>>,
      SrtExample,
      Unlines(<< <<"1">>, Timestamp, <<>> >>),
      Unlines(<< <<"1">>, Timestamp, OnlyTags >>),
      Unlines(<< <<"1">>, Timestamp, TaggedNumber, Goodbye >>),
      <<" ", NL>> }

\* what the downloader does to the directory: nothing, or it writes the
\* canonical file, or the alternate-named one
DownloaderWrites ==
    {[target |-> "none", content |-> <<>>]}
        \cup [target : {"canonical", "alternate"}, content : DownloadedContents]

\* what the user types at the prompt; eof is end of input
PromptInputs ==
    {[eof |-> TRUE, text |-> <<>>]}
        \cup [eof : {FALSE},
              text : {<<>>, <<" ">>, <<"u">>, <<" ", "u", " ">>}]

-----------------------------------------------------------------------------
(* download_subtitles, lines 100-140 *)

YtDlpCommand(youtube_url) ==
    <<"yt-dlp", "--skip-download", "--write-subs", "--write-auto-subs",
      "--sub-lang", "en", "--sub-format", "ttml", "--convert-subs", "srt",
      "--output", "transcript.srt", youtube_url>>

\* a check without the size test of line 127
AcceptsAnyFile(f) == IF ~f.exists THEN "missing" ELSE "good"

\* lines 122 and 127: the verdict on the canonical file
Verdict(f) ==
    IF ~f.exists THEN "missing"
    ELSE IF Len(f.content) = 0 THEN "empty"
    ELSE "good"

\* The directory holds t (canonical) and a (alternate) once the downloader
\* has run with outcome proc.  result is "true"/"false" for the value
\* returned and "raised" when an exception escapes the function.
download_subtitles(youtube_url, t, a, proc, renameOk, removeOk) ==
    LET rc == run_command(YtDlpCommand(youtube_url),
                          "Subtitle Download (yt-dlp)", proc)
    IN  IF rc.raised
        THEN [result |-> "false", transcript |-> t, altFile |-> a,
              error |-> rc.error, seen |-> NoFile,
              renameFailed |-> FALSE, removeFailed |-> FALSE]
        ELSE IF a.exists /\ ~renameOk
        THEN [result |-> "raised", transcript |-> t, altFile |-> a,
              error |-> NoError, seen |-> NoFile,
              renameFailed |-> TRUE, removeFailed |-> FALSE]
        ELSE LET t1 == IF a.exists THEN a ELSE t
                 a1 == NoFile
                 v  == Verdict(t1)
             IN  IF v = "missing"
                 THEN [result |-> "false", transcript |-> t1, altFile |-> a1,
                       error |-> NoError, seen |-> t1,
                       renameFailed |-> FALSE, removeFailed |-> FALSE]
                 ELSE IF v = "empty"
                 THEN [result |-> "false",
                       transcript |-> IF removeOk THEN NoFile ELSE t1,
                       altFile |-> a1, error |-> NoError, seen |-> t1,
                       renameFailed |-> FALSE, removeFailed |-> ~removeOk]
                 ELSE [result |-> "true", transcript |-> t1, altFile |-> a1,
                       error |-> NoError, seen |-> t1,
                       renameFailed |-> FALSE, removeFailed |-> FALSE]

NoFetch ==
    [called |-> FALSE, exit0 |-> FALSE, result |-> "none", seen |-> NoFile,
     renameFailed |-> FALSE, removeFailed |-> FALSE]

-----------------------------------------------------------------------------
(* main, lines 213-246 *)

StageOrder ==
    <<"CheckPrereqs", "Probe", "Prompt", "Fetch", "Clean", "Summarize",
      "Release", "Cleanup">>

Successor(stage) ==
    LET i == CHOOSE k \in 1..Len(StageOrder) : StageOrder[k] = stage
    IN  IF i = Len(StageOrder) THEN "terminated" ELSE StageOrder[i + 1]

\* a main that goes on whatever a stage returned
ContinuesAnyway(stage, ok) == Successor(stage)

\* lines 228-240: "if not <stage>: sys.exit(1)"
AfterStage(stage, ok) == IF ok THEN Successor(stage) ELSE "terminated"

\* a main that treats a failed stop like a failed stage
AfterReleaseChecked(stopped) == AfterStage("Release", stopped)

\* line 243: the value stop_ollama_model returns is not looked at
AfterRelease(stopped) == Successor("Release")

\* line 223: the exceptions of the probe that main catches
ProbeCaught(proc) ==
    \/ proc.kind = "exit" /\ proc.status # 0
    \/ proc.kind \in {"not_found", "timeout"}

\* a stage returned: main goes on, or leaves through sys.exit(1)
Advance(stage, ok) ==
    LET next == AfterStage(stage, ok)
    IN  /\ pc' = next
        /\ failed' = IF ok THEN failed ELSE stage
        /\ exitCode' = IF next = "terminated" THEN 1 ELSE exitCode

\* an exception nobody catches leaves main: traceback, exit status 1
Crash(stage) ==
    /\ pc' = "terminated"
    /\ failed' = stage
    /\ exitCode' = 1

Log(events) == trace' = trace \o events

\* lines 215-217 with check_command_exists, lines 19-24
CheckPrereqs ==
    /\ pc = "CheckPrereqs"
    /\ \E haveYtDlp, haveOllama \in BOOLEAN :
          /\ Log(<<"stage:CheckPrereqs">>
                   \o (IF haveYtDlp /\ haveOllama THEN <<>>
                       ELSE <<"print:error">>))
          /\ Advance("CheckPrereqs", haveYtDlp /\ haveOllama)
    /\ UNCHANGED <<run, deleteFlag, transcript, altFile, url, lastProc,
                   lastError, fetch, before, cleanOk>>

\* lines 219-224: subprocess.run(["ollama", "ps"], check=True, timeout=5)
Probe ==
    /\ pc = "Probe"
    /\ \E proc \in ProbeOutcomes :
          /\ lastProc' = proc
          /\ IF Succeeded(proc)
             THEN /\ Log(<<"stage:Probe", "run:ollama ps", "print:running">>)
                  /\ pc' = Successor("Probe")
                  /\ UNCHANGED <<failed, exitCode>>
             ELSE IF ProbeCaught(proc)
             THEN /\ Log(<<"stage:Probe", "run:ollama ps", "print:warning">>)
                  /\ pc' = Successor("Probe")
                  /\ UNCHANGED <<failed, exitCode>>
             ELSE /\ Log(<<"stage:Probe", "run:ollama ps", "traceback">>)
                  /\ Crash("Probe")
    /\ UNCHANGED <<run, deleteFlag, transcript, altFile, url, lastError,
                   fetch, before, cleanOk>>

\* lines 226-230: input(...).strip()
Prompt ==
    /\ pc = "Prompt"
    /\ \E typed \in PromptInputs :
          IF typed.eof
          THEN /\ Log(<<"stage:Prompt", "traceback">>)
               /\ Crash("Prompt")
               /\ UNCHANGED url
          ELSE /\ url' = Strip(typed.text)
               /\ Log(<<"stage:Prompt">>
                        \o (IF Strip(typed.text) = <<>> THEN <<"print:error">>
                            ELSE <<>>))
               /\ Advance("Prompt", Strip(typed.text) # <<>>)
    /\ UNCHANGED <<run, deleteFlag, transcript, altFile, lastProc, lastError,
                   fetch, before, cleanOk>>

\* lines 233-234: download_subtitles(youtube_url).  The downloader runs
\* first and may write either file; then the function looks at the directory.
Fetch ==
    /\ pc = "Fetch"
    /\ \E proc \in RunOutcomes, w \in DownloaderWrites,
          renameOk, removeOk \in BOOLEAN :
          \* a downloader that could not be started writes nothing
          /\ proc.kind # "exit" => w.target = "none"
          /\ LET t0 == IF w.target = "canonical" THEN File(w.content, run)
                       ELSE transcript
                 a0 == IF w.target = "alternate" THEN File(w.content, run)
                       ELSE altFile
                 r  == download_subtitles(url, t0, a0, proc, renameOk, removeOk)
             IN  /\ lastProc' = proc
                 /\ transcript' = r.transcript
                 /\ altFile' = r.altFile
                 /\ lastError' = IF r.error.what = "none" THEN lastError
                                 ELSE r.error
                 /\ fetch' = [called |-> TRUE, exit0 |-> Succeeded(proc),
                              result |-> r.result, seen |-> r.seen,
                              renameFailed |-> r.renameFailed,
                              removeFailed |-> r.removeFailed]
                 /\ IF r.result = "raised"
                    THEN /\ Log(<<"stage:Fetch", "run:yt-dlp", "traceback">>)
                         /\ Crash("Fetch")
                    ELSE /\ Log(<<"stage:Fetch", "run:yt-dlp">>
                                  \o (IF r.result = "true" THEN <<>>
                                      ELSE <<"print:error">>))
                         /\ Advance("Fetch", r.result = "true")
    /\ UNCHANGED <<run, deleteFlag, url, before, cleanOk>>

\* lines 236-237: clean_srt_file(TRANSCRIPT_FILENAME)
Clean ==
    /\ pc = "Clean"
    /\ \E io \in {"ok", "read_error", "open_error", "write_error"} :
          LET r == IF transcript.exists
                   THEN clean_srt_file(transcript.content, io)
                   ELSE [ok |-> FALSE, content |-> <<>>]
          IN  /\ before' = transcript.content
              /\ cleanOk' = r.ok
              /\ transcript' = IF transcript.exists
                               THEN [transcript EXCEPT !.content = r.content]
                               ELSE transcript
              /\ Log(<<"stage:Clean">>
                       \o (IF r.ok THEN <<>> ELSE <<"print:error">>))
              /\ Advance("Clean", r.ok)
    /\ UNCHANGED <<run, deleteFlag, altFile, url, lastProc, lastError, fetch>>


OllamaRunCommand == <<"ollama", "run", OLLAMA_MODEL, PROMPT>>
OllamaStopCommand == <<"ollama", "stop", OLLAMA_MODEL>>

\* summarize_transcript, lines 143-184, on the file f; readOk is whether
\* the file can be read, proc what "ollama run" does if it is started.
\* events is what the function does and prints, in order.
summarize_transcript(f, readOk, proc) ==
    IF ~f.exists \/ ~readOk
    THEN [ok |-> FALSE, ran |-> FALSE, error |-> NoError,
          events |-> <<"print:error">>]
    ELSE IF Strip(f.content) = <<>>
    THEN [ok |-> FALSE, ran |-> FALSE, error |-> NoError,
          events |-> <<"print:error">>]
    ELSE LET rc == run_command(OllamaRunCommand, "Summarization", proc)
         IN  IF rc.raised
             THEN [ok |-> FALSE, ran |-> TRUE, error |-> rc.error,
                   events |-> <<"run:ollama run", "print:CommandError">>]
             ELSE [ok |-> TRUE, ran |-> TRUE, error |-> NoError,
                   events |-> <<"run:ollama run", "print:summary">>]

\* lines 239-240
Summarize ==
    /\ pc = "Summarize"
    /\ \E readOk \in BOOLEAN, proc \in RunOutcomes :
          LET r == summarize_transcript(transcript, readOk, proc)
          IN  /\ lastProc' = IF r.ran THEN proc ELSE lastProc
              /\ lastError' = IF r.error.what = "none" THEN lastError
                              ELSE r.error
              /\ Log(<<"stage:Summarize">> \o r.events)
              /\ Advance("Summarize", r.ok)
    /\ UNCHANGED <<run, deleteFlag, transcript, altFile, url, fetch, before,
                   cleanOk>>

\* stop_ollama_model, lines 187-200: TRUE when the model was stopped
stop_ollama_model(proc) ==
    ~run_command(OllamaStopCommand, "Stopping ollama Model", proc).raised

\* lines 242-243
Release ==
    /\ pc = "Release"
    /\ \E proc \in RunOutcomes :
          LET rc == run_command(OllamaStopCommand, "Stopping ollama Model",
                                proc)
              stopped == stop_ollama_model(proc)
              next == AfterRelease(stopped)
          IN  /\ lastProc' = proc
              /\ lastError' = IF rc.raised THEN rc.error ELSE lastError
              /\ Log(<<"stage:Release", "run:ollama stop">>
                       \o (IF stopped THEN <<>> ELSE <<"print:warning">>))
              /\ pc' = next
              /\ failed' = IF next = "terminated" THEN "Release" ELSE failed
              /\ exitCode' = IF next = "terminated" THEN 1 ELSE exitCode
    /\ UNCHANGED <<run, deleteFlag, transcript, altFile, url, fetch, before,
                   cleanOk>>

\* cleanup, lines 203-210, then lines 245-246: main returns, exit status 0
Cleanup ==
    /\ pc = "Cleanup"
    /\ \E removeOk \in BOOLEAN :
          IF deleteFlag
          THEN IF transcript.exists /\ removeOk
               THEN /\ transcript' = NoFile
                    /\ Log(<<"stage:Cleanup", "print:removed",
                             "print:finished">>)
               ELSE /\ UNCHANGED transcript
                    /\ Log(<<"stage:Cleanup", "print:warning",
                             "print:finished">>)
          ELSE /\ UNCHANGED transcript
               /\ Log(<<"stage:Cleanup", "print:finished">>)
    /\ pc' = "terminated"
    /\ exitCode' = 0
    /\ UNCHANGED <<run, deleteFlag, altFile, url, failed, lastProc, lastError,
                   fetch, before, cleanOk>>

\* the program is started again in the same directory
NewRun ==
    /\ pc = "terminated"
    /\ run < MaxRuns
    /\ run' = run + 1
    /\ pc' = "CheckPrereqs"
    /\ url' = <<>>
    /\ trace' = <<>>
    /\ failed' = "none"
    /\ exitCode' = -1
    /\ lastProc' = NoProc
    /\ lastError' = NoError
    /\ fetch' = NoFetch
    /\ before' = <<>>
    /\ cleanOk' = FALSE
    /\ UNCHANGED <<deleteFlag, transcript, altFile>>

\* the first run starts in a directory that holds neither file
Init ==
    /\ pc = "CheckPrereqs"
    /\ run = 1
    /\ deleteFlag \in BOOLEAN
    /\ transcript = NoFile
    /\ altFile = NoFile
    /\ url = <<>>
    /\ trace = <<>>
    /\ failed = "none"
    /\ exitCode = -1
    /\ lastProc = NoProc
    /\ lastError = NoError
    /\ fetch = NoFetch
    /\ before = <<>>
    /\ cleanOk = FALSE

Next ==
    \/ CheckPrereqs
    \/ Probe
    \/ Prompt
    \/ Fetch
    \/ Clean
    \/ Summarize
    \/ Release
    \/ Cleanup
    \/ NewRun

Spec == Init /\ [][Next]_vars

-----------------------------------------------------------------------------
(* clean_srt_file on its own: every raw transcript up to the bounds is      *)
(* cleaned, and the file a successful call wrote is cleaned once more.     *)

Alphabet == {"a", "1", " ", "<", ">"}
LinePool ==
    UNION {[1..k -> Alphabet] : k \in 0..MaxLineLen}
        \cup {Timestamp, HelloTagged, OnlyTags, TaggedNumber, Goodbye,
              SpacedTag}
TailLines == {<<"1">>, Timestamp, OnlyTags, Goodbye}

\* the first line is any line of the pool, the lines behind it are samples;
\* the last line is written with or without its newline
RawTranscripts ==
    LET lists == UNION {{<<first>> \o rest : first \in LinePool,
                                            rest \in [1..k -> TailLines]}
                        : k \in 0..(MaxLines - 1)}
        full  == {Unlines(l) : l \in lists}
    IN  {<<>>, SrtExample} \cup full
            \cup {SubSeq(c, 1, Len(c) - 1) : c \in full}

InitClean ==
    /\ pc = "call_clean"
    /\ run = 1
    /\ deleteFlag = FALSE
    /\ transcript \in {File(c, 1) : c \in RawTranscripts}
    /\ altFile = NoFile
    /\ url = <<>>
    /\ trace = <<>>
    /\ failed = "none"
    /\ exitCode = -1
    /\ lastProc = NoProc
    /\ lastError = NoError
    /\ fetch = NoFetch
    /\ before = <<>>
    /\ cleanOk = FALSE

CleanOnce ==
    /\ pc = "call_clean"
    /\ LET r == clean_srt_file(transcript.content, "ok")
       IN  /\ before' = transcript.content
           /\ cleanOk' = r.ok
           /\ transcript' = [transcript EXCEPT !.content = r.content]
           /\ pc' = IF r.ok THEN "call_again" ELSE "returned"
    /\ UNCHANGED <<run, deleteFlag, altFile, url, trace, failed, exitCode,
                   lastProc, lastError, fetch>>

CleanAgain ==
    /\ pc = "call_again"
    /\ LET r == clean_srt_file(transcript.content, "ok")
       IN  /\ before' = transcript.content
           /\ cleanOk' = r.ok
           /\ transcript' = [transcript EXCEPT !.content = r.content]
           /\ pc' = "returned_again"
    /\ UNCHANGED <<run, deleteFlag, altFile, url, trace, failed, exitCode,
                   lastProc, lastError, fetch>>

NextClean == CleanOnce \/ CleanAgain

SpecClean == InitClean /\ [][NextClean]_vars

-----------------------------------------------------------------------------
(* Properties of the run *)

StageEvents ==
    <<"stage:CheckPrereqs", "stage:Probe", "stage:Prompt", "stage:Fetch",
      "stage:Clean", "stage:Summarize", "stage:Release", "stage:Cleanup">>

IsStageEvent(e) == \E i \in 1..Len(StageEvents) : StageEvents[i] = e

\* the stages this run has executed, in the order it executed them
Stages == SelectSeq(trace, IsStageEvent)

Logged(e) == \E i \in 1..Len(trace) : trace[i] = e

InRun == pc \in {StageOrder[i] : i \in 1..Len(StageOrder)} \cup {"terminated"}

\* C1: the stages of a run execute in the fixed order, each once and only
\* after every earlier stage succeeded; a run in which a stage failed has
\* terminated with exit status 1 at that stage, and in particular neither
\* stopped the model nor removed the transcript.
C1_SequentialAbort ==
    /\ Len(Stages) <= Len(StageEvents)
    /\ \A i \in 1..Len(Stages) : Stages[i] = StageEvents[i]
    /\ pc # "terminated" =>
          /\ failed = "none"
          /\ exitCode = -1
          /\ Len(Stages) < Len(StageOrder)
          /\ pc = StageOrder[Len(Stages) + 1]
    /\ failed # "none" =>
          /\ pc = "terminated"
          /\ exitCode = 1
          /\ Len(Stages) >= 1
          /\ \E i \in 1..Len(StageOrder) :
                /\ StageOrder[i] = failed
                /\ Len(Stages) = i
          /\ ~Logged("run:ollama stop")
          /\ ~Logged("print:removed")
    /\ (pc = "terminated" /\ failed = "none") =>
          /\ exitCode = 0
          /\ Len(Stages) = Len(StageEvents)

C1_Witness ==
    /\ pc = "terminated"
    /\ failed = "Clean"
    /\ exitCode = 1
    /\ Stages = SubSeq(StageEvents, 1, 5)

\* C2: once the summary has been printed no stage fails and the run ends
\* with exit status 0 whatever the stop command and the deletion do; a stop
\* that fails is followed by a warning; the stop command is only ever issued
\* after the summary was printed.
C2_ReleaseBestEffort ==
    /\ Logged("print:summary") =>
          /\ failed = "none"
          /\ pc \in {"Release", "Cleanup", "terminated"}
          /\ pc = "terminated" => exitCode = 0
          /\ (pc = "Cleanup" /\ ~Succeeded(lastProc)) =>
                trace[Len(trace)] = "print:warning"
    /\ \A j \in 1..Len(trace) :
          trace[j] = "run:ollama stop" =>
              \E i \in 1..(j - 1) : trace[i] = "print:summary"

C2_Witness ==
    /\ pc = "terminated"
    /\ exitCode = 0
    /\ Logged("print:summary")
    /\ ~Succeeded(lastProc)
    /\ deleteFlag
    /\ transcript.exists
    /\ Logged("print:warning")

\* C3: the transcript that Clean and Summarize work on was written by the
\* downloader of the same run.
C3_NoCrossRunState ==
    pc \in {"Clean", "Summarize"} =>
        /\ transcript.exists
        /\ transcript.madeBy = run

\* C8 (original): after the downloader exited 0 and the rename went through,
\* download_subtitles returns without raising; it returns success exactly
\* when the canonical file exists and is not empty; and when it found the
\* file empty the file is gone afterwards.
FetchChecked == fetch.called /\ fetch.exit0 /\ ~fetch.renameFailed

FetchVerdict ==
    FetchChecked =>
        /\ fetch.result \in {"true", "false"}
        /\ fetch.result = "true" <=>
              (fetch.seen.exists /\ Len(fetch.seen.content) > 0)
        /\ fetch.result = "true" => failed # "Fetch"
        /\ fetch.result = "false" => (failed = "Fetch" /\ exitCode = 1)
        /\ pc = "Clean" => transcript = fetch.seen

FoundEmpty == FetchChecked /\ fetch.seen.exists /\ Len(fetch.seen.content) = 0

C8_EmptyFileAlwaysRemoved ==
    /\ FetchVerdict
    /\ FoundEmpty => ~transcript.exists

\* C8 (amended): as above, but the empty file is gone afterwards unless its
\* deletion failed, in which case it is still there as it was found.
C8_EmptyFileRemovedBestEffort ==
    /\ FetchVerdict
    /\ FoundEmpty =>
          IF fetch.removeFailed THEN transcript = fetch.seen
          ELSE ~transcript.exists

C8_Witness ==
    /\ FoundEmpty
    /\ fetch.result = "false"
    /\ ~transcript.exists
    /\ pc = "terminated"
    /\ exitCode = 1

\* C9: when "ollama run" exits with a non-zero status, the CommandError
\* holds the command line, the status and what the command wrote to stderr
\* and stdout; the error is printed, no summary is printed and the run ends
\* with exit status 1.
RunnerFailed ==
    /\ Logged("run:ollama run")
    /\ ~Logged("run:ollama stop")
    /\ lastProc.kind = "exit"
    /\ lastProc.status # 0

C9_RunnerFailureSurfaced ==
    RunnerFailed =>
        /\ lastError.what = "exit"
        /\ lastError.cmd = OllamaRunCommand
        /\ lastError.status = lastProc.status
        /\ lastError.stderr = lastProc.stderr
        /\ lastError.stdout = lastProc.stdout
        /\ trace[Len(trace)] = "print:CommandError"
        /\ ~Logged("print:summary")
        /\ failed = "Summarize"
        /\ pc = "terminated"
        /\ exitCode = 1

C9_Witness ==
    /\ RunnerFailed
    /\ lastProc.status = 2
    /\ lastError.status = 2
    /\ lastError.stderr = "o1"
    /\ lastError.stdout = "o2"
    /\ exitCode = 1

\* C10: whatever the probe "ollama ps" does, the run goes on to the prompt.
C10_ProbeNeverFatal ==
    Logged("stage:Probe") => (pc = "Prompt" \/ Logged("stage:Prompt"))

-----------------------------------------------------------------------------
(* Properties of cleaning, stated without the cleaner's own scan *)

\* position i of s lies in a tag: between a '<' and the first '>' behind it
InTag(s, i) ==
    \E j \in 1..i, k \in i..Len(s) :
        /\ j < k
        /\ s[j] = "<"
        /\ s[k] = ">"
        /\ \A m \in j..(k - 1) : s[m] # ">"

\* s without the characters that lie in a tag
TagStripped(s) ==
    LET keep == {i \in 1..Len(s) : ~InTag(s, i)}
        nth(n) == CHOOSE i \in keep : Cardinality({j \in keep : j <= i}) = n
    IN  [n \in 1..Cardinality(keep) |-> s[nth(n)]]

HasTag(s) == \E i, j \in 1..Len(s) : i < j /\ s[i] = "<" /\ s[j] = ">"

\* HH:MM:SS,mmm --> HH:MM:SS,mmm with every digit replaced by '#'
TimestampShape ==
    <<"#","#",":","#","#",":","#","#",",","#","#","#"," ","-","-",">"," ",
      "#","#",":","#","#",":","#","#",",","#","#","#">>

IsTimestampRange(s) ==
    [i \in 1..Len(s) |-> IF s[i] \in Digits THEN "#" ELSE s[i]] = TimestampShape
        /\ \A i \in 1..Len(s) : s[i] # "#"

PurelyDigits(s) == s # <<>> /\ {s[i] : i \in 1..Len(s)} \subseteq Digits

\* the form of a line in the cleaned file
CleanForm(line) == Strip(TagStripped(Strip(line)))

\* the line is neither blank, nor a timestamp range, nor a sequence number,
\* nor blank once its tags are gone
Survives(line) ==
    /\ Strip(line) # <<>>
    /\ ~IsTimestampRange(Strip(line))
    /\ ~PurelyDigits(Strip(line))
    /\ CleanForm(line) # <<>>

RECURSIVE CleanForms(_)
CleanForms(lines) ==
    IF lines = <<>> THEN <<>>
    ELSE <<CleanForm(Head(lines))>> \o CleanForms(Tail(lines))

ExpectedCleaned(content) ==
    Unlines(CleanForms(SelectSeq(ReadLines(content), Survives)))

NoSurvivor(content) == SelectSeq(ReadLines(content), Survives) = <<>>

\* the first call returned True: `before` is the raw transcript and the file
\* holds what the call wrote
CleanedOnce == pc = "call_again"
\* the second call returned: `before` is what the first call wrote
CleanedTwice == pc = "returned_again"

\* C4 (original): cleaning the file a successful cleaning wrote succeeds and
\* leaves the file as it was.
C4_Idempotent ==
    CleanedTwice => (cleanOk /\ transcript.content = before)

\* C4 (amended): the same, for files written by a successful cleaning in
\* which no line is purely digits or a timestamp range.
NoStructuralLine(content) ==
    \A i \in 1..Len(ReadLines(content)) :
        LET line == Strip(ReadLines(content)[i])
        IN  ~PurelyDigits(line) /\ ~IsTimestampRange(line)

C4_IdempotentOnNarrative ==
    (CleanedTwice /\ NoStructuralLine(before)) =>
        (cleanOk /\ transcript.content = before)

C4_Witness ==
    /\ CleanedTwice
    /\ before = Unlines(<<HelloWorld, Goodbye>>)
    /\ NoStructuralLine(before)
    /\ cleanOk
    /\ transcript.content = before

\* C5: the file a successful cleaning writes holds, in the order of the raw
\* lines, the trimmed and tag-stripped form of every raw line that survives,
\* each followed by a newline, and nothing else.
C5_PureFilter ==
    CleanedOnce =>
        /\ cleanOk
        /\ transcript.content = ExpectedCleaned(before)

C5_Witness ==
    /\ CleanedOnce
    /\ before = SrtExample
    /\ transcript.content = Unlines(<<HelloWorld, Goodbye>>)

\* C6: a run whose raw transcript has no surviving line fails at Clean: the
\* cleaner returns False, the file still holds the raw transcript, the run
\* has ended with exit status 1 and "ollama run" was never started.
C6_EmptyAfterCleaning ==
    (Logged("stage:Clean") /\ NoSurvivor(before)) =>
        /\ ~cleanOk
        /\ failed = "Clean"
        /\ transcript.exists
        /\ transcript.content = before
        /\ transcript = fetch.seen
        /\ pc = "terminated"
        /\ exitCode = 1
        /\ ~Logged("run:ollama run")
        /\ ~Logged("stage:Summarize")

C6_Witness ==
    /\ Logged("stage:Clean")
    /\ before = Unlines(<< <<"1">>, Timestamp, <<>> >>)
    /\ transcript.content = before
    /\ failed = "Clean"
    /\ exitCode = 1

\* C7: every line of the file a successful cleaning writes is non-blank and
\* free of tags, the file ends with a newline, and a raw line that holds
\* nothing but tags accounts for no line of the file.
TagOnly(line) == Strip(line) # <<>> /\ CleanForm(line) = <<>>

ContributesLine(line) == Strip(line) # <<>> /\ ~TagOnly(line)

C7_NoBlankNoMarkup ==
    CleanedOnce =>
        LET out == ReadLines(transcript.content)
        IN  /\ Len(out) >= 1
            /\ \A i \in 1..Len(out) :
                  /\ out[i][Len(out[i])] = NL
                  /\ Strip(out[i]) # <<>>
                  /\ ~HasTag(out[i])
            /\ Len(out) <= Len(SelectSeq(ReadLines(before), ContributesLine))

C7_Witness ==
    /\ CleanedOnce
    /\ before = Unlines(<<OnlyTags, Goodbye>>)
    /\ transcript.content = Unlines(<<Goodbye>>)

=============================================================================
